---- MODULE Spec2Model ----
(***************************************************************************)
(* A model of dbTable (src/dbTable.py): the Column expression builder      *)
(* (Column.operate and the operator methods), the dbTable view combinators *)
(* (select / where / sort / group), the statement generator formulate,    *)
(* the memoized row count __len__ and sample, over a two-relation sqlite   *)
(* database.                                                               *)
(***************************************************************************)
EXTENDS Integers, Sequences, FiniteSets, TLC

VARIABLES views, refs, rows, last

vars == <<views, refs, rows, last>>

(***************************************************************************)
(* Python values.  A literal carries its Python type; a Column carries     *)
(* colexpr, table and type.  Column.table is a dbTable, and the only thing *)
(* the code does with it is compare it with == / !=, which dbTable.__eq__  *)
(* decides by name: the model keeps the name.                              *)
(***************************************************************************)
IntLit(n) == [k |-> "int", v |-> n]

StrLit(s) == [k |-> "str", v |-> s]

FloatLit(w, t) == [k |-> "float", v |-> <<w, t>>]

Column(table, colexpr, type) ==
    [k |-> "Column", colexpr |-> colexpr, table |-> table, type |-> type]

isColumn(x) == x.k = "Column"

\* dbTable.__eq__ : two tables are equal iff their names are equal
tableEq(t1, t2) == t1 = t2

(***************************************************************************)
(* colexpr is SQL text.  The model keeps the text's syntax tree and Str    *)
(* writes it out, so that the store can evaluate what the text says:       *)
(*   <<"col", name>>          a bare column name                           *)
(*   <<"lit", value>>         repr() of a coerced Python literal           *)
(*   <<"op", tmpl, l, r>>     a "(%s <op> %s)" template, both holes filled *)
(*   <<"fn", f, e>>           "%s(%s)" % (function, colexpr)               *)
(***************************************************************************)
Ref(name) == <<"col", name>>

Lit(val) == <<"lit", val>>

Op(tmpl, l, r) == <<"op", tmpl, l, r>>

Fn(f, e) == <<"fn", f, e>>

\* the format templates of the operator methods: text before, between and
\* after the two %s
ADD == <<"(", " + ", ")">>
SUB == <<"(", " - ", ")">>
MUL == <<"(", "*", ")">>
DIV == <<"(", " / ", ")">>
LT == <<"(", " < ", ")">>
LE == <<"(", " <= ", ")">>
EQ == <<"(", " = ", ")">>
NE == <<"(", " != ", ")">>
GE == <<"(", " >= ", ")">>
GT == <<"(", " > ", ")">>
AND == <<"(", " AND ", ")">>
OR == <<"(", " OR ", ")">>
CONCAT == <<"(", " || ", ")">>

\* repr() of an int, a float and a str
repr(val) ==
    CASE val.k = "int" -> ToString(val.v)
      [] val.k = "float" -> ToString(val.v[1]) \o "." \o ToString(val.v[2])
      [] val.k = "str" -> "'" \o val.v \o "'"

RECURSIVE Str(_)
\* Column.__repr__ / "%s" % column : the text of a colexpr
Str(e) ==
    CASE e[1] = "col" -> e[2]
      [] e[1] = "lit" -> repr(e[2])
      [] e[1] = "op" -> e[2][1] \o Str(e[3]) \o e[2][2] \o Str(e[4]) \o e[2][3]
      [] e[1] = "fn" -> e[2] \o "(" \o Str(e[3]) \o ")"

(***************************************************************************)
(* c.type(x): the Python constructors int(), float() and str() applied to  *)
(* a literal or to a Column.  <<>> when the call raises, <<value>> when it *)
(* returns.  int() and float() parse a str of decimal digits and raise on  *)
(* any other str; they raise TypeError on a Column, which defines neither  *)
(* __int__ nor __float__; str() accepts everything and on a Column gives   *)
(* its __repr__, the colexpr.                                              *)
(***************************************************************************)
MaxDigit == 9

isDigits(s) == \E n \in 0..MaxDigit : ToString(n) = s

parseInt(s) == CHOOSE n \in 0..MaxDigit : ToString(n) = s

pytype(type, x) ==
    CASE type = "int" ->
           ( CASE x.k = "int" -> <<x>>
               [] x.k = "float" -> <<IntLit(x.v[1])>>
               [] x.k = "str" ->
                    IF isDigits(x.v) THEN <<IntLit(parseInt(x.v))>> ELSE <<>>
               [] x.k = "Column" -> <<>> )
      [] type = "float" ->
           ( CASE x.k = "int" -> <<FloatLit(x.v, 0)>>
               [] x.k = "float" -> <<x>>
               [] x.k = "str" ->
                    IF isDigits(x.v) THEN <<FloatLit(parseInt(x.v), 0)>> ELSE <<>>
               [] x.k = "Column" -> <<>> )
      [] type = "str" ->
           ( CASE x.k = "int" -> <<StrLit(ToString(x.v))>>
               [] x.k = "float" -> <<StrLit(repr(x))>>
               [] x.k = "str" -> <<x>>
               [] x.k = "Column" -> <<StrLit(Str(x.colexpr))>> )

\* the outcome of a call: a returned value or a raised exception
Return(val) == [ok |-> TRUE, v |-> val]

Raise(exc) == [ok |-> FALSE, v |-> exc]

(***************************************************************************)
(* Column.operate(c1, c2, expr, strcheck)                                  *)
(***************************************************************************)
operate(c1, c2, expr, strcheck) ==
    IF isColumn(c1) /\ isColumn(c2) /\ c1.type = c2.type /\ tableEq(c1.table, c2.table)
    THEN Return(Column(c1.table, Op(expr, c1.colexpr, c2.colexpr), c1.type))
    ELSE IF isColumn(c1)
    THEN LET t == pytype(c1.type, c2) IN
         IF t = <<>> THEN Raise("ValueError")
         ELSE IF c1.type = "str" /\ strcheck
         THEN Return(Column(c1.table, Op(CONCAT, c1.colexpr, Lit(t[1])), c1.type))
         ELSE Return(Column(c1.table, Op(expr, c1.colexpr, Lit(t[1])), c1.type))
    ELSE IF isColumn(c2)
    THEN LET t == pytype(c2.type, c1) IN
         IF t = <<>> THEN Raise("ValueError")
         \* c1 is a literal here: c1.colexpr raises AttributeError, which the
         \* bare except turns into ValueError
         ELSE IF c2.type = "str" /\ strcheck THEN Raise("ValueError")
         ELSE Return(Column(c2.table, Op(expr, Lit(t[1]), c2.colexpr), c2.type))
    ELSE Return([k |-> "None"])

(***************************************************************************)
(* The operator methods of Column: each is operate with a template, the    *)
(* strcheck flag, and for __rsub__ / __rdiv__ the operands swapped.        *)
(***************************************************************************)
Method(name, tmpl, strcheck, swap, kind) ==
    [name |-> name, tmpl |-> tmpl, strcheck |-> strcheck, swap |-> swap, kind |-> kind]

Arithmetic ==
    { Method("__add__", ADD, TRUE, FALSE, "arith"),
      Method("__radd__", ADD, TRUE, FALSE, "arith"),
      Method("__sub__", SUB, TRUE, FALSE, "arith"),
      Method("__rsub__", SUB, TRUE, TRUE, "arith"),
      Method("__mul__", MUL, TRUE, FALSE, "arith"),
      Method("__rmul__", MUL, TRUE, FALSE, "arith"),
      Method("__div__", DIV, TRUE, FALSE, "arith"),
      Method("__rdiv__", DIV, TRUE, TRUE, "arith"),
      Method("__truediv__", DIV, TRUE, FALSE, "arith") }

Comparison ==
    { Method("__lt__", LT, FALSE, FALSE, "cmp"),
      Method("__le__", LE, FALSE, FALSE, "cmp"),
      Method("__eq__", EQ, FALSE, FALSE, "cmp"),
      Method("__ne__", NE, FALSE, FALSE, "cmp"),
      Method("__ge__", GE, FALSE, FALSE, "cmp"),
      Method("__gt__", GT, FALSE, FALSE, "cmp") }

Logical ==
    { Method("__and__", AND, FALSE, FALSE, "logic"),
      Method("__or__", OR, FALSE, FALSE, "logic") }

Methods == Arithmetic \cup Comparison \cup Logical

\* self.<method>(x)
call(m, self, x) ==
    IF m.swap THEN operate(x, self, m.tmpl, m.strcheck)
    ELSE operate(self, x, m.tmpl, m.strcheck)

\* p & q  and  p | q
and(p, q) == operate(p, q, AND, FALSE)

or(p, q) == operate(p, q, OR, FALSE)

\* Column.apply(function)
apply(c, function) == Column(c.table, Fn(function, c.colexpr), c.type)

(***************************************************************************)
(* The database: two relations.  sqltypes maps the declared SQL type of a  *)
(* column to the Python type the Column carries.                           *)
(***************************************************************************)
sqltypes(t) ==
    CASE t = "REAL" -> "float"
      [] t = "INTEGER" -> "int"
      [] t = "TEXT" -> "str"
      [] t = "INT" -> "int"
      [] t = "" -> "int"

\* Database.get_table_columns: the (name, type) pairs of a relation
get_table_columns(table_name) ==
    CASE table_name = "R" ->
           << <<"a", sqltypes("INTEGER")>>, <<"b", sqltypes("TEXT")>> >>
      [] table_name = "S" ->
           << <<"a", sqltypes("INTEGER")>>, <<"b", sqltypes("TEXT")>>,
              <<"c", sqltypes("REAL")>> >>

(***************************************************************************)
(* A Python dict, in insertion order: a sequence of <<key, value>> with    *)
(* distinct keys.                                                          *)
(***************************************************************************)
keys(d) == [i \in 1..Len(d) |-> d[i][1]]

has(d, key) == \E i \in 1..Len(d) : d[i][1] = key

get(d, key) == d[CHOOSE i \in 1..Len(d) : d[i][1] = key][2]

\* d[key] = val : an existing key keeps its place
put(d, key, val) ==
    IF has(d, key)
    THEN [i \in 1..Len(d) |-> IF d[i][1] = key THEN <<key, val>> ELSE d[i]]
    ELSE Append(d, <<key, val>>)

\* del d[key]
del(d, key) == SelectSeq(d, LAMBDA kv : kv[1] # key)

RECURSIVE comprehension(_, _)
\* {col: src[col] for col in names}
comprehension(names, src) ==
    IF names = <<>> THEN <<>>
    ELSE LET n == Len(names) IN
         put(comprehension(SubSeq(names, 1, n - 1), src), names[n], get(src, names[n]))

(***************************************************************************)
(* The options dict of a view.  Every key is optional: <<>> when the key   *)
(* is absent, <<value>> when it is present.                                *)
(***************************************************************************)
NoOptions ==
    [columns |-> <<>>, where |-> <<>>, sort |-> <<>>, group |-> <<>>,
     having |-> <<>>, limit |-> <<>>]

None == [k |-> "None"]

\* dbTable.__init__ given a list of (name, type) pairs: the base view
dbTableFromList(name, columns, options) ==
    [name |-> name,
     columns |-> [i \in 1..Len(columns) |->
                    <<columns[i][1], Column(name, Ref(columns[i][1]), columns[i][2])>>],
     options |-> [options EXCEPT !.columns =
                    << [i \in 1..Len(columns) |-> columns[i][1]] >>],
     length |-> <<>>]

\* dbTable.__init__ given a dict of Columns
dbTable(name, columns, options) ==
    [name |-> name, columns |-> columns, options |-> options, length |-> <<>>]

\* Database.get_tables: one base view per relation
tables(name) == dbTableFromList(name, get_table_columns(name), NoOptions)

\* dbTable.__getitem__
getitem(self, column) == get(self.columns, column)

\* dbTable.__setitem__: the columns dict after self.columns[column] = newcol.
\* newcol.table = self leaves the Column in a table of the same name.
setitem(self, column, newcol) ==
    IF ~isColumn(newcol) THEN Raise("ValueError")
    ELSE IF ~tableEq(newcol.table, self.name) THEN Raise("ValueError")
    ELSE Return(put(self.columns, column, newcol))

\* dbTable.__delitem__: the columns dict after self.columns.__delitem__(b)
delitem(self, b) ==
    IF ~has(self.columns, b) THEN Raise("KeyError") ELSE Return(del(self.columns, b))

(***************************************************************************)
(* The combinators.  Each returns a new view or raises; the receiver is    *)
(* read, never written: options and columns are copied (dict(...)).        *)
(***************************************************************************)
\* a select that hands on the receiver's columns as they are
selectKept(self, columns) ==
    IF \E i \in 1..Len(columns) : ~has(self.columns, columns[i])
    THEN Raise("KeyError")
    ELSE Return(dbTable(self.name, self.columns, self.options))

\* dbTable.select(columns), columns a list of names
select(self, columns) ==
    IF \E i \in 1..Len(columns) : ~has(self.columns, columns[i])
    THEN Raise("KeyError")
    ELSE Return(dbTable(self.name, comprehension(columns, self.columns), self.options))

\* dbTable.where(column)
where(self, column) ==
    IF ~tableEq(column.table, self.name) THEN Raise("ValueError")
    ELSE IF self.options.where # <<>>
    THEN LET merged == and(self.options.where[1], column) IN
         IF merged.ok
         THEN Return(dbTable(self.name, self.columns,
                             [self.options EXCEPT !.where = <<merged.v>>]))
         ELSE merged
    ELSE Return(dbTable(self.name, self.columns,
                        [self.options EXCEPT !.where = <<column>>]))

\* isinstance(column,str) and column in self.columns -> self.columns[column]
resolve(self, column) ==
    IF column.k = "str" /\ has(self.columns, column.v)
    THEN get(self.columns, column.v)
    ELSE column

\* a sort that leaves a sort the receiver already holds in place
sortOnce(self, column, descending) ==
    LET desc == IF descending THEN "DESC" ELSE "ASC"
        col == resolve(self, column)
    IN  IF isColumn(col) /\ tableEq(col.table, self.name)
        THEN Return(dbTable(self.name, self.columns,
                            IF self.options.sort # <<>> THEN self.options
                            ELSE [self.options EXCEPT !.sort = << <<col, desc>> >>]))
        ELSE Raise("ValueError")

\* dbTable.sort(column, descending)
sort(self, column, descending) ==
    LET desc == IF descending THEN "DESC" ELSE "ASC"
        col == resolve(self, column)
    IN  IF isColumn(col) /\ tableEq(col.table, self.name)
        THEN Return(dbTable(self.name, self.columns,
                            [self.options EXCEPT !.sort = << <<col, desc>> >>]))
        ELSE Raise("ValueError")

\* the truth value Python gives an argument: None and "" are false
truthy(x) == ~(x.k = "None" \/ (x.k = "str" /\ x.v = ""))

\* a group that forgets the receiver's having when it is given none
groupFresh(self, column, having, collect) ==
    LET col == resolve(self, column) IN
    IF isColumn(col) /\ tableEq(col.table, self.name)
    THEN Return(dbTable(self.name, self.columns,
                        [self.options EXCEPT
                           !.group = <<col>>,
                           !.having = IF truthy(having) /\ isColumn(having)
                                         /\ tableEq(having.table, self.name)
                                      THEN <<having>> ELSE <<>>]))
    ELSE Raise("ValueError")

\* a group that stores the having predicate and no group key
havingOnly(self, column, having, collect) ==
    IF truthy(having) /\ isColumn(having) /\ tableEq(having.table, self.name)
    THEN Return(dbTable(self.name, self.columns,
                        [self.options EXCEPT !.having = <<having>>]))
    ELSE Raise("ValueError")

\* dbTable.group(column, having, collect)
group(self, column, having, collect) ==
    LET col == resolve(self, column) IN
    IF isColumn(col) /\ tableEq(col.table, self.name)
    THEN LET o1 == [self.options EXCEPT !.group = <<col>>]
             o2 == IF truthy(having) /\ isColumn(having) /\ tableEq(having.table, self.name)
                   THEN [o1 EXCEPT !.having = <<having>>]
                   ELSE o1
             columns == IF truthy(collect)
                        THEN [i \in 1..Len(self.columns) |->
                                <<self.columns[i][1], apply(self.columns[i][2], collect.v)>>]
                        ELSE self.columns
         IN  Return(dbTable(self.name, columns, o2))
    ELSE Raise("ValueError")

(***************************************************************************)
(* formulate(options): the statement of a view under a one-shot override.  *)
(* The result holds what each of the six segments is made from; the seg    *)
(* operators below write the segments and Sql the whole statement.         *)
(***************************************************************************)
formulate(self, options) ==
    LET limit == IF self.options.limit # <<>>
                 \* the min(...) of line 156 is overwritten by line 157
                 THEN self.options.limit
                 ELSE options.limit
        bothWhere == self.options.where # <<>> /\ options.where # <<>>
        \* line 165 is evaluated, and may raise, before line 166 overwrites it
        merged == and(self.options.where[1], options.where[1])
        whereE == IF self.options.where # <<>>
                  THEN <<self.options.where[1].colexpr>>
                  ELSE IF options.where # <<>> THEN <<options.where[1].colexpr>>
                  ELSE <<>>
        cols == IF options.columns # <<>>
                THEN IF options.columns[1].k = "str"
                     THEN <<"str", options.columns[1].v>>
                     ELSE <<"list", [i \in 1..Len(options.columns[1].v) |->
                                       options.columns[1].v[i].colexpr]>>
                ELSE <<"list", [i \in 1..Len(self.columns) |-> self.columns[i][2].colexpr]>>
        byOverride == options.group # <<>>
        groupE == IF byOverride THEN <<options.group[1].colexpr>>
                  ELSE IF self.options.group # <<>> THEN <<self.options.group[1].colexpr>>
                  ELSE <<>>
        havingE == IF byOverride
                   THEN IF options.having # <<>> THEN <<options.having[1].colexpr>> ELSE <<>>
                   ELSE IF self.options.group # <<>> /\ self.options.having # <<>>
                   THEN <<self.options.having[1].colexpr>>
                   ELSE <<>>
        sortE == IF options.sort # <<>> THEN options.sort
                 ELSE self.options.sort
    IN  IF bothWhere /\ ~merged.ok THEN merged
        ELSE Return([cols |-> cols, name |-> self.name, where |-> whereE,
                     group |-> groupE, having |-> havingE, byOverride |-> byOverride,
                     sort |-> IF sortE = <<>> THEN <<>>
                              ELSE << <<sortE[1][1].colexpr, sortE[1][2]>> >>,
                     limit |-> limit])

RECURSIVE join(_, _)
\* sep.join(strs)
join(sep, strs) ==
    IF strs = <<>> THEN ""
    ELSE IF Len(strs) = 1 THEN strs[1]
    ELSE strs[1] \o sep \o join(sep, Tail(strs))

\* "LIMIT %d"
limitSeg(st) == IF st.limit = <<>> THEN "" ELSE "LIMIT " \o ToString(st.limit[1])

\* "WHERE %s"
whereSeg(st) == IF st.where = <<>> THEN "" ELSE "WHERE " \o Str(st.where[1])

\* the column list
colsSeg(st) ==
    IF st.cols[1] = "str" THEN st.cols[2]
    ELSE join(",", [i \in 1..Len(st.cols[2]) |-> Str(st.cols[2][i])])

\* "GROUP BY %s" and " HAVING %s"
groupSeg(st) ==
    IF st.group = <<>> THEN ""
    ELSE "GROUP BY " \o Str(st.group[1]) \o (IF st.byOverride THEN " " ELSE "")
         \o (IF st.having = <<>> THEN "" ELSE " HAVING " \o Str(st.having[1]))

\* "ORDER BY %s %s"
sortSeg(st) ==
    IF st.sort = <<>> THEN ""
    ELSE "ORDER BY " \o Str(st.sort[1][1]) \o " " \o st.sort[1][2]

\* "SELECT %s FROM %s %s %s %s %s"
Sql(st) ==
    "SELECT " \o colsSeg(st) \o " FROM " \o st.name \o " " \o whereSeg(st) \o " "
    \o groupSeg(st) \o " " \o sortSeg(st) \o " " \o limitSeg(st)

(***************************************************************************)
(* The store: sqlite executing a statement over the rows of a relation.    *)
(* A row maps column names to values; a value is a tagged literal or NULL. *)
(* A Boolean is the integer 0 or 1; a text used as a condition counts as   *)
(* the number it starts with, 0 when it starts with none.                  *)
(***************************************************************************)
NULL == [k |-> "null"]

Bool(b) == IntLit(IF b THEN 1 ELSE 0)

isTrue(val) ==
    CASE val.k = "int" -> val.v # 0
      [] val.k = "float" -> val.v # <<0, 0>>
      [] val.k = "str" -> isDigits(val.v) /\ parseInt(val.v) # 0
      [] OTHER -> FALSE

RECURSIVE hasAggregate(_)
\* does the expression call a function (the model's functions are aggregates)
hasAggregate(e) ==
    CASE e[1] = "fn" -> TRUE
      [] e[1] = "op" -> hasAggregate(e[3]) \/ hasAggregate(e[4])
      [] OTHER -> FALSE

\* the value of a binary template applied to two values
EvalOp(tmpl, l, r) ==
    CASE tmpl = AND -> Bool(isTrue(l) /\ isTrue(r))
      [] tmpl = OR -> Bool(isTrue(l) \/ isTrue(r))
      [] tmpl = EQ /\ l.k = r.k /\ l.k \in {"int", "str", "float"} -> Bool(l.v = r.v)
      [] tmpl = NE /\ l.k = r.k /\ l.k \in {"int", "str", "float"} -> Bool(l.v # r.v)
      [] tmpl = LT /\ l.k = "int" /\ r.k = "int" -> Bool(l.v < r.v)
      [] tmpl = LE /\ l.k = "int" /\ r.k = "int" -> Bool(l.v <= r.v)
      [] tmpl = GE /\ l.k = "int" /\ r.k = "int" -> Bool(l.v >= r.v)
      [] tmpl = GT /\ l.k = "int" /\ r.k = "int" -> Bool(l.v > r.v)
      [] tmpl = ADD /\ l.k = "int" /\ r.k = "int" -> IntLit(l.v + r.v)
      [] tmpl = SUB /\ l.k = "int" /\ r.k = "int" -> IntLit(l.v - r.v)
      [] tmpl = MUL /\ l.k = "int" /\ r.k = "int" -> IntLit(l.v * r.v)
      [] OTHER -> [k |-> "unsupported"]

RECURSIVE Eval(_, _, _)
\* the value of expression e on a row, the aggregates ranging over grp
Eval(e, row, grp) ==
    CASE e[1] = "col" -> IF e[2] \in DOMAIN row THEN row[e[2]] ELSE NULL
      [] e[1] = "lit" -> e[2]
      [] e[1] = "fn" ->
           IF e[2] = "COUNT"
           THEN IntLit(Cardinality({i \in 1..Len(grp) : Eval(e[3], grp[i], <<>>).k # "null"}))
           ELSE [k |-> "unsupported"]
      [] e[1] = "op" -> EvalOp(e[2], Eval(e[3], row, grp), Eval(e[4], row, grp))

RECURSIVE distinct(_)
\* the distinct values of a sequence, each at its first occurrence
distinct(seq) ==
    IF seq = <<>> THEN <<>>
    ELSE LET n == Len(seq)
             front == distinct(SubSeq(seq, 1, n - 1))
         IN  IF \E i \in 1..Len(front) : front[i] = seq[n] THEN front
             ELSE Append(front, seq[n])

\* the rows of the table that pass the WHERE clause
kept(st, data) ==
    IF st.where = <<>> THEN data[st.name]
    ELSE SelectSeq(data[st.name], LAMBDA r : isTrue(Eval(st.where[1], r, <<>>)))

\* does the column list aggregate (a raw column string is COUNT(*))
aggregated(st) ==
    IF st.cols[1] = "str" THEN TRUE
    ELSE \E i \in 1..Len(st.cols[2]) : hasAggregate(st.cols[2][i])

\* the output row of one group (or of one plain row, grp = <<row>>)
output(st, grp) ==
    IF st.cols[1] = "str" THEN <<IntLit(Len(grp))>>
    ELSE [i \in 1..Len(st.cols[2]) |->
            Eval(st.cols[2][i], IF grp = <<>> THEN << >> ELSE grp[1], grp)]

\* the rows sharing each GROUP BY key, in the order the keys first occur
groupsByKey(st, rs, groupKeys) ==
    [i \in 1..Len(groupKeys) |->
        SelectSeq(rs, LAMBDA r : Eval(st.group[1], r, <<>>) = groupKeys[i])]

\* the groups that pass the HAVING clause
havingGroups(st, all) ==
    IF st.having = <<>> THEN all
    ELSE SelectSeq(all, LAMBDA g : isTrue(Eval(st.having[1], g[1], g)))

\* the groups of rows the statement outputs one row for
groups(st, rs) ==
    IF st.group # <<>>
    THEN havingGroups(st, groupsByKey(st, rs,
             distinct([i \in 1..Len(rs) |-> Eval(st.group[1], rs[i], <<>>)])))
    ELSE IF aggregated(st) THEN <<rs>>
    ELSE [i \in 1..Len(rs) |-> <<rs[i]>>]

\* the LIMIT clause applied to the output rows
limited(st, out) ==
    IF st.limit = <<>> \/ st.limit[1] >= Len(out) THEN out
    ELSE SubSeq(out, 1, st.limit[1])

\* the output rows of the groups
outputs(st, grps) == [i \in 1..Len(grps) |-> output(st, grps[i])]

\* execute(sql).fetchall() for a statement of formulate: the result rows, or
\* the error sqlite raises on an empty column list
Execute(st, data) ==
    IF st.cols[1] = "list" /\ st.cols[2] = <<>> THEN Raise("OperationalError")
    ELSE Return(limited(st, outputs(st, groups(st, kept(st, data)))))

\* SELECT COUNT(*) over the rows of an executed inner statement
countOf(inner) ==
    IF inner.ok THEN Return(<< <<IntLit(Len(inner.v))>> >>) ELSE inner

\* "WITH temp as (%s) SELECT COUNT(*) from temp"
ExecuteCountOf(st, data) == countOf(Execute(st, data))

\* if not self.length
unset(length) == length = <<>> \/ length = <<0>>

\* self.length = execute(...).fetchall()[0][0]; return self.length
fetched(self, res) ==
    IF ~res.ok
    THEN [ok |-> FALSE, v |-> res.v, length |-> self.length, executed |-> TRUE]
    \* fetchall()[0] on no rows
    ELSE IF res.v = <<>>
    THEN [ok |-> FALSE, v |-> "IndexError", length |-> self.length, executed |-> TRUE]
    ELSE [ok |-> TRUE, v |-> res.v[1][1].v, length |-> <<res.v[1][1].v>>,
          executed |-> TRUE]

\* the statement of formulate(options), which __len__ gives no where override
statement(self, options) == formulate(self, options).v

\* __len__ without the derived-table branch for a grouped view
lenOverGroups(self, data) ==
    IF unset(self.length)
    THEN fetched(self, Execute(statement(self,
             [NoOptions EXCEPT !.columns = <<StrLit("COUNT(*)")>>]), data))
    ELSE [ok |-> TRUE, v |-> self.length[1], length |-> self.length, executed |-> FALSE]

(***************************************************************************)
(* dbTable.__len__: the outcome, the value left in self.length and whether *)
(* the store was asked to execute a statement                              *)
(***************************************************************************)
len(self, data) ==
    IF unset(self.length)
    THEN fetched(self,
             IF self.options.group # <<>>
             THEN ExecuteCountOf(statement(self, NoOptions), data)
             ELSE Execute(statement(self,
                      [NoOptions EXCEPT !.columns = <<StrLit("COUNT(*)")>>]), data))
    ELSE [ok |-> TRUE, v |-> self.length[1], length |-> self.length, executed |-> FALSE]

RECURSIVE rowsAt(_, _)
\* the rows of seq at the places in idx, in their order
rowsAt(seq, idx) ==
    IF seq = <<>> THEN <<>>
    ELSE IF Len(seq) \in idx
    THEN Append(rowsAt(SubSeq(seq, 1, Len(seq) - 1), idx), seq[Len(seq)])
    ELSE rowsAt(SubSeq(seq, 1, Len(seq) - 1), idx)

\* the first rows up to a LIMIT
firstRows(out, limit) == IF limit >= Len(out) THEN out ELSE SubSeq(out, 1, limit)

\* self.to_table(): the rows of execute(self.formulate()).fetchall()
to_table(self, data) == Execute(statement(self, NoOptions), data)

\* "WITH temp as (%s) SELECT * from temp WHERE RANDOM() %% %d = 0 LIMIT %d":
\* pick holds the places of the rows whose RANDOM() is a multiple of n when
\* n > 1; every integer is a multiple of 1, and x % 0 is NULL in sqlite
stridedRows(temp, n, limit, pick) ==
    IF ~temp.ok THEN temp
    ELSE Return(firstRows(rowsAt(temp.v, IF n = 1 THEN 1..Len(temp.v)
                                         ELSE IF n = 0 THEN {} ELSE pick), limit))

\* what sample hands back: the rows or the exception, the length memoized
\* by len(self), and the stride and limit of the query when it issued one
handed(res, count, strided, n, limit) ==
    [ok |-> res.ok, v |-> res.v, length |-> count.length, count |-> count.v,
     strided |-> strided, n |-> n, limit |-> limit]

\* sample once len(self) is known
sampled(self, num_rows, data, pick, count) ==
    IF ~count.ok THEN handed(count, count, FALSE, 0, 0)
    ELSE IF count.v <= num_rows THEN handed(to_table(self, data), count, FALSE, 0, 0)
    ELSE handed(stridedRows(to_table(self, data), count.v \div num_rows, num_rows, pick),
                count, TRUE, count.v \div num_rows, num_rows)

\* a sample whose query carries no LIMIT
sampleUnlimited(self, num_rows, data, pick) ==
    sampled(self, IF len(self, data).ok /\ len(self, data).v > num_rows
                  THEN len(self, data).v ELSE num_rows, data, pick, len(self, data))

\* dbTable.sample(num_rows)
sample(self, num_rows, data, pick) == sampled(self, num_rows, data, pick, len(self, data))

(***************************************************************************)
(* Bounds and the inputs the operations are given.                         *)
(***************************************************************************)
\* view instances alive at once (the base view of R included)
MaxViews == 3

\* the largest limit a view is constructed with or an override carries
MaxLimit == 2

\* the largest num_rows sample is given
MaxSample == 3

M(name) == CHOOSE m \in Methods : m.name = name

\* the base columns of both relations
BaseColumns ==
    { tables(t).columns[i][2] : <<t, i>> \in ({"R"} \X (1..2)) \cup ({"S"} \X (1..3)) }

Literals == { IntLit(1), StrLit("x"), StrLit("1"), FloatLit(2, 5) }

\* the predicates a comparison of a base column with a literal builds
Predicates ==
    { call(y[1], y[2], y[3]).v : y \in
        { z \in {M("__gt__"), M("__eq__")} \X BaseColumns \X Literals :
            call(z[1], z[2], z[3]).ok } }

Ra == getitem(tables("R"), "a")

Rb == getitem(tables("R"), "b")

Sa == getitem(tables("S"), "a")

Sb == getitem(tables("S"), "b")

\* (a > 1), (a > 3), (b = 'x') on R; (a > 1) on S
pA == call(M("__gt__"), Ra, IntLit(1)).v

pZ == call(M("__gt__"), Ra, IntLit(3)).v

pB == call(M("__eq__"), Rb, StrLit("x")).v

pS == call(M("__gt__"), Sa, IntLit(1)).v

\* (COUNT(a) > 1) on R and on S
hR == call(M("__gt__"), apply(Ra, "COUNT"), IntLit(1)).v

hS == call(M("__gt__"), apply(Sa, "COUNT"), IntLit(1)).v

SelectArgs == { <<"a">>, <<"b", "a">>, <<"a", "a">>, <<>>, <<"zz">> }

WhereArgs == { pA, pZ, pB, pS }

SortArgs == { <<StrLit("a"), FALSE>>, <<Ra, TRUE>>, <<Sa, FALSE>>, <<StrLit("zz"), TRUE>> }

GroupArgs ==
    { <<StrLit("b"), None, None>>, <<Ra, None, None>>, <<Rb, hR, None>>, <<StrLit("b"), hS, None>>,
      <<StrLit("b"), None, StrLit("COUNT")>>, <<Rb, None, StrLit("COUNT")>>,
      <<Sb, None, None>>, <<Sb, hR, None>> }

Overrides ==
    { NoOptions, [NoOptions EXCEPT !.columns = <<StrLit("COUNT(*)")>>],
      [NoOptions EXCEPT !.columns = <<[k |-> "list", v |-> <<Ra>>]>>],
      [NoOptions EXCEPT !.group = <<Ra>>, !.having = <<hR>>],
      [NoOptions EXCEPT !.sort = << <<Rb, "DESC">> >>] }
    \cup { [NoOptions EXCEPT !.limit = <<n>>] : n \in 1..MaxLimit }
    \cup { [NoOptions EXCEPT !.where = <<q>>] : q \in {pA, pB} }

\* the contents of the store
Dataset ==
    [R |-> << [a |-> IntLit(1), b |-> StrLit("x")],
              [a |-> IntLit(2), b |-> StrLit("y")],
              [a |-> IntLit(3), b |-> StrLit("x")] >>,
     S |-> << [a |-> IntLit(1), b |-> StrLit("x"), c |-> FloatLit(2, 5)] >>]

(***************************************************************************)
(* The state: the view instances created so far (views[1] is the base view *)
(* of R that the Database holds, each later view is derived from the one   *)
(* before it), the store's rows, and the last call with its arguments and  *)
(* outcome.  The caller works on the newest view of the chain.             *)
(* self.options and self.columns are references to dict objects: refs[i]   *)
(* holds the addresses of the two dicts of views[i], and an item assigned  *)
(* in a dict shows in every view whose reference is that dict.             *)
(***************************************************************************)
\* a dict passed on as it is: the same object
shared(ref, free) == ref

\* dict(d): a copy, which is a new object at the next free address
dict(ref, free) == free

\* a derived view that is handed the receiver's dict of columns
refsOfReceiver(op, i) ==
    [options |-> dict(refs[i].options, 2 * Len(views) + 1), columns |-> refs[i].columns]

\* the dicts of the view a combinator on view i builds: select fills a new
\* dict of columns, the others copy the receiver's
refsOf(op, i) ==
    [options |-> dict(refs[i].options, 2 * Len(views) + 1),
     columns |-> IF op = "select" THEN 2 * Len(views) + 2
                 ELSE dict(refs[i].columns, 2 * Len(views) + 2)]

\* the views after the items of view v were assigned in the dicts at r
assigned(r, v) ==
    [j \in 1..Len(views) |->
        [views[j] EXCEPT !.options = IF refs[j].options = r.options THEN v.options ELSE @,
                         !.columns = IF refs[j].columns = r.columns THEN v.columns ELSE @]]

Receivers == { Len(views) }

Init ==
    /\ views = << tables("R") >>
    /\ refs = << [options |-> 1, columns |-> 2] >>
    /\ rows = Dataset
    /\ last = [op |-> "init"]

\* a combinator call on view i: a returned view is a new instance
Combinator(op, i, args, res) ==
    /\ res.ok => Len(views) < MaxViews
    /\ views' = IF res.ok THEN Append(assigned(refsOf(op, i), res.v), res.v) ELSE views
    /\ refs' = IF res.ok THEN Append(refs, refsOf(op, i)) ELSE refs
    /\ last' = [op |-> op, recv |-> i, args |-> args, ok |-> res.ok,
                out |-> IF res.ok THEN Len(views) + 1 ELSE 0]
    /\ UNCHANGED rows

Select ==
    \E i \in Receivers, columns \in SelectArgs :
        Combinator("select", i, <<columns>>, select(views[i], columns))

Where ==
    \E i \in Receivers, column \in WhereArgs :
        Combinator("where", i, <<column>>, where(views[i], column))

Sort ==
    \E i \in Receivers, a \in SortArgs :
        Combinator("sort", i, a, sort(views[i], a[1], a[2]))

Group ==
    \E i \in Receivers, a \in GroupArgs :
        Combinator("group", i, a, group(views[i], a[1], a[2], a[3]))

\* dbTable(v.db, v.name, dict(v.columns), options) with options holding
\* v's options and a limit
Construct ==
    \E i \in Receivers, n \in 1..MaxLimit :
        Combinator("construct", i, <<n>>,
                   Return(dbTable(views[i].name, views[i].columns,
                                  [views[i].options EXCEPT !.limit = <<n>>])))

Formulate ==
    \E i \in Receivers, options \in Overrides :
        LET res == formulate(views[i], options) IN
        /\ last' = [op |-> "formulate", recv |-> i, args |-> <<options>>, ok |-> res.ok,
                    out |-> IF res.ok THEN res.v ELSE None]
        /\ UNCHANGED <<views, refs, rows>>

Length ==
    \E i \in Receivers :
        LET res == len(views[i], rows) IN
        /\ views' = [views EXCEPT ![i].length = res.length]
        /\ last' = [op |-> "len", recv |-> i, args |-> <<views[i].length>>, ok |-> res.ok,
                    out |-> IF res.ok THEN res.v ELSE 0, executed |-> res.executed]
        /\ UNCHANGED <<refs, rows>>

\* the sets of rows RANDOM() may mark as multiples of the stride: any set
\* when the stride is 2 or more, and nothing to choose otherwise
randoms(self, num_rows, data) ==
    IF len(self, data).ok /\ len(self, data).v \div num_rows >= 2
    THEN SUBSET (1..Len(data[self.name]))
    ELSE { {} }

\* dbTable.sample(num_rows): len(self) memoizes the length
Sample ==
    \E i \in Receivers, num_rows \in 1..MaxSample :
      \E pick \in randoms(views[i], num_rows, rows) :
        LET res == sample(views[i], num_rows, rows, pick) IN
        /\ views' = [views EXCEPT ![i].length = res.length]
        /\ last' = [op |-> "sample", recv |-> i, args |-> <<num_rows>>, ok |-> res.ok,
                    out |-> IF res.ok THEN res.v ELSE <<>>, count |-> res.count,
                    strided |-> res.strided, n |-> res.n, limit |-> res.limit]
        /\ UNCHANGED <<refs, rows>>

NextSample == Where \/ Group \/ Sample

SpecSample == Init /\ [][NextSample]_vars

Next == Select \/ Where \/ Sort \/ Group \/ Length

Spec == Init /\ [][Next]_vars

NextFormulate == Where \/ Construct \/ Formulate

SpecFormulate == Init /\ [][NextFormulate]_vars

(***************************************************************************)
(* Item assignment and deletion after a derivation w = v.select(..) /       *)
(* where(..) / sort(..) / group(..): an item call, on v or on w, follows a  *)
(* combinator call that returned a view.  The dict written is the one the  *)
(* view refers to, so every view referring to it shows the item.           *)
(***************************************************************************)
\* the names and values item assignment is given: a new name and one in
\* use; a Column of the view, one of another relation, and no Column
ItemNames == { "a", "c" }

ItemValues == { Rb, apply(Ra, "COUNT"), Sa, IntLit(1) }

\* the views an item call follows a derivation on: v and w
Derived ==
    IF last.op \in {"select", "where", "sort", "group"} /\ last.ok
    THEN { <<last.recv, last.out>>, <<last.out, last.recv>> }
    ELSE {}

\* an item call on view i, the other view of the derivation being j
Item(op, i, j, args, res) ==
    /\ views' = IF res.ok
                THEN assigned([options |-> 0, columns |-> refs[i].columns],
                              [views[i] EXCEPT !.columns = res.v])
                ELSE views
    /\ last' = [op |-> op, recv |-> i, other |-> j, args |-> args, ok |-> res.ok,
                out |-> 0]
    /\ UNCHANGED <<refs, rows>>

SetItem ==
    \E d \in Derived, column \in ItemNames, newcol \in ItemValues :
        Item("setitem", d[1], d[2], <<column, newcol>>,
             setitem(views[d[1]], column, newcol))

DelItem ==
    \E d \in Derived, b \in { "a", "zz" } :
        Item("delitem", d[1], d[2], <<b>>, delitem(views[d[1]], b))

\* the derivations: the chain is not derived further once an item call
\* has been made on it
Derive ==
    /\ last.op \notin {"setitem", "delitem"}
    /\ (Select \/ Where \/ Sort \/ Group)

NextItems == Derive \/ SetItem \/ DelItem

SpecItems == Init /\ [][NextItems]_vars

(***************************************************************************)
(* One select, one where and one sort applied to the base view of R in a   *)
(* chosen order, each call on the view the call before it returned.  The   *)
(* order and the arguments are drawn at the start; a call that raises ends *)
(* the chain.                                                              *)
(***************************************************************************)
Orders ==
    { <<"select", "where", "sort">>, <<"select", "sort", "where">>,
      <<"where", "select", "sort">>, <<"where", "sort", "select">>,
      <<"sort", "select", "where">>, <<"sort", "where", "select">> }

\* name lists, predicates and sort keys that are valid on the base view
ChainNames == { <<"a">>, <<"b">>, <<"b", "a">>, <<"a", "b">> }

ChainPredicates == { pA, pZ, pB }

ChainKeys == { StrLit("a"), StrLit("b"), Ra, Rb }

InitChain ==
    /\ views = << tables("R") >>
    /\ refs = << [options |-> 1, columns |-> 2] >>
    /\ rows = Dataset
    /\ last \in [op : {"chain"}, order : Orders, columns : ChainNames,
                 column : ChainPredicates, key : ChainKeys, descending : BOOLEAN,
                 done : {0}, ok : {TRUE}]

\* the next call of the chain, on the newest view
Chained(op, res) ==
    /\ last.op = "chain" /\ last.ok /\ last.done < 3
    /\ last.order[last.done + 1] = op
    /\ views' = IF res.ok THEN Append(assigned(refsOf(op, Len(views)), res.v), res.v)
                ELSE views
    /\ refs' = IF res.ok THEN Append(refs, refsOf(op, Len(views))) ELSE refs
    /\ last' = [last EXCEPT !.done = IF res.ok THEN @ + 1 ELSE @, !.ok = res.ok]
    /\ UNCHANGED rows

ChainSelect ==
    \E i \in Receivers : Chained("select", select(views[i], last.columns))

ChainWhere ==
    \E i \in Receivers : Chained("where", where(views[i], last.column))

ChainSort ==
    \E i \in Receivers : Chained("sort", sort(views[i], last.key, last.descending))

NextChain == ChainSelect \/ ChainWhere \/ ChainSort

SpecChain == InitChain /\ [][NextChain]_vars

(***************************************************************************)
(* The expression builder on its own: one operator method applied to a     *)
(* Column and an operand, each a base column of R or S, a predicate built  *)
(* from one, or a literal.                                                 *)
(***************************************************************************)
Operands == BaseColumns \cup Predicates \cup Literals

InitExpr ==
    /\ views = << tables("R") >>
    /\ refs = << [options |-> 1, columns |-> 2] >>
    /\ rows = Dataset
    /\ last \in [op : {"args"}, m : Methods, self : BaseColumns \cup Predicates,
                 x : Operands]

Operate ==
    /\ last.op = "args"
    /\ LET res == call(last.m, last.self, last.x) IN
       last' = [op |-> "operate", m |-> last.m, self |-> last.self, x |-> last.x,
                ok |-> res.ok, out |-> IF res.ok THEN res.v ELSE None]
    /\ UNCHANGED <<views, refs, rows>>

\* the aggregate names apply is given
Aggregates == { "COUNT", "SUM", "MAX" }

\* Column.apply on the Column drawn as self
Apply ==
    /\ last.op = "args"
    /\ \E function \in Aggregates :
         last' = [op |-> "apply", self |-> last.self, function |-> function,
                  ok |-> TRUE, out |-> apply(last.self, function)]
    /\ UNCHANGED <<views, refs, rows>>

NextExpr == Operate \/ Apply

SpecExpr == InitExpr /\ [][NextExpr]_vars

(***************************************************************************)
(* Properties.                                                             *)
(***************************************************************************)
min(a, b) == IF a <= b THEN a ELSE b

\* the text of p AND q
conjunction(p, q) == "(" \o Str(p.colexpr) \o " AND " \o Str(q.colexpr) \o ")"

\* the rows a predicate is judged on: every (a, b) over a few values
TestRows == { [a |-> IntLit(n), b |-> StrLit(t)] : n \in 0..4, t \in {"x", "y"} }

holds(p, row) == isTrue(Eval(p.colexpr, row, <<>>))

\* C1: when the view's options and the override both hold a limit, formulate
\* renders the limit segment as LIMIT min(a, b).
C1_LimitIsMin ==
    (last.op = "formulate" /\ views[last.recv].options.limit # <<>>
       /\ last.args[1].limit # <<>>)
    => /\ last.ok
       /\ limitSeg(last.out) =
            "LIMIT " \o ToString(min(views[last.recv].options.limit[1],
                                     last.args[1].limit[1]))

\* C2: when the view's options hold a where predicate p and the override a
\* where predicate q, formulate renders the where segment as WHERE (p AND q).
C2_WhereIsConjunction ==
    (last.op = "formulate" /\ views[last.recv].options.where # <<>>
       /\ last.args[1].where # <<>>)
    => /\ last.ok
       /\ whereSeg(last.out) =
            "WHERE " \o conjunction(views[last.recv].options.where[1],
                                    last.args[1].where[1])

\* C3: for comparison-built predicates p and q on the columns of a view,
\* whatever their type tags, v.where(p).where(q) succeeds and the WHERE
\* clause of the result holds on a row exactly when p and q both hold on it.
C3_WhereWhere ==
    (last.op = "where" /\ views[last.recv].options.where # <<>>
       /\ views[last.recv].options.where[1] \in WhereArgs
       /\ tableEq(last.args[1].table, views[last.recv].name))
    => /\ last.ok
       /\ \A row \in TestRows :
            holds(views[last.out].options.where[1], row)
            <=> (holds(views[last.recv].options.where[1], row) /\ holds(last.args[1], row))

\* C4: every operator method applied to two Expressions of different base
\* relations raises.
C4_CrossViewRaises ==
    (last.op = "operate" /\ isColumn(last.self) /\ isColumn(last.x)
       /\ ~tableEq(last.self.table, last.x.table))
    => ~last.ok

\* is x an Expression of another base relation than view self
foreign(self, x) == isColumn(x) /\ ~tableEq(x.table, self.name)

\* C5: where, sort and group raise, and return no view, when the where
\* predicate, the sort key, the group key or the having predicate is an
\* Expression of a different base relation than the receiver.
C5_ForeignArgumentRaises ==
    (/\ last.op \in {"where", "sort", "group"}
     /\ \/ foreign(views[last.recv], last.args[1])
        \/ (last.op = "group" /\ foreign(views[last.recv], last.args[2])))
    => (~last.ok /\ last.out = 0)

\* C6: every arithmetic and comparison method applied to a Text-typed
\* Expression and an Integer literal raises.
C6_TextWithIntegerRaises ==
    (last.op = "operate" /\ last.m \in Arithmetic \cup Comparison
       /\ last.self.type = "str" /\ last.x.k = "int")
    => ~last.ok

\* C7: every arithmetic method applied to two Expressions of the same view
\* whose type tags differ raises, whichever of the two is on the left.
C7_ArithmeticNeedsEqualTypes ==
    (last.op = "operate" /\ last.m \in Arithmetic
       /\ isColumn(last.self) /\ isColumn(last.x)
       /\ tableEq(last.self.table, last.x.table) /\ last.self.type # last.x.type)
    => ~last.ok

\* C8: p AND q and p OR q of two comparison-built predicates of the same
\* view, whatever their type tags, are built and render both operands'
\* fragments unchanged around AND / OR.
C8_LogicalCombines ==
    (last.op = "operate" /\ last.m \in Logical
       /\ last.self \in Predicates /\ last.x \in Predicates
       /\ tableEq(last.self.table, last.x.table))
    => /\ last.ok
       /\ Str(last.out.colexpr) =
            "(" \o Str(last.self.colexpr) \o last.m.tmpl[2] \o Str(last.x.colexpr) \o ")"

\* C9: the first __len__ call on a view executes a statement; every later
\* call on the same view returns the memoized value and executes none.
C9_CountedOnce ==
    last.op = "len" =>
        /\ last.args[1] = <<>> => last.executed
        /\ last.args[1] # <<>> => (~last.executed /\ last.out = last.args[1][1])

\* C10: with the store unchanged, the first __len__ of a view built by
\* select / where / sort / group, grouped or not, is the number of rows that
\* executing the view's statement returns (whenever the store executes it).
C10_LengthIsRowCount ==
    (last.op = "len" /\ last.args[1] = <<>>)
    => LET rs == Execute(formulate(views[last.recv], NoOptions).v, rows) IN
       rs.ok => (last.ok /\ last.out = Len(rs.v))

\* a first __len__ on a grouped view that also holds a where has run
C10_Witness ==
    /\ last.op = "len" /\ last.args[1] = <<>> /\ last.ok /\ last.out >= 1
    /\ views[last.recv].options.group # <<>>
    /\ views[last.recv].options.where # <<>>

\* the statement text of v.formulate()
text(v) == Sql(formulate(v, NoOptions).v)

\* C11: a select, where, sort or group call on v, returning or raising,
\* leaves v's options, v's columns and the text of v.formulate() as they
\* were; a call that raises adds no view.
C11_ReceiverUnchanged ==
    [][ last'.op \in {"select", "where", "sort", "group"}
        => /\ views'[last'.recv].options = views[last'.recv].options
           /\ views'[last'.recv].columns = views[last'.recv].columns
           /\ text(views'[last'.recv]) = text(views[last'.recv])
           /\ ~last'.ok => (Len(views') = Len(views) /\ last'.out = 0) ]_vars

\* a combinator has returned a view whose options differ from its receiver's
C11_Witness ==
    /\ last.op \in {"select", "where", "sort", "group"} /\ last.ok
    /\ views[last.out].options # views[last.recv].options
    /\ text(views[last.out]) # text(views[last.recv])

\* C12: select(names), every name a column of v, returns a view whose
\* columns are exactly the names in the order given (a repeated name once,
\* where it first occurs), each with v's Column, and whose options are v's;
\* selecting the same names again gives the same names in the same order
\* and the same statement text.
C12_SelectNarrows ==
    (last.op = "select"
       /\ \A i \in 1..Len(last.args[1]) : has(views[last.recv].columns, last.args[1][i]))
    => /\ last.ok
       /\ keys(views[last.out].columns) = distinct(last.args[1])
       /\ \A i \in 1..Len(last.args[1]) :
            get(views[last.out].columns, last.args[1][i])
              = get(views[last.recv].columns, last.args[1][i])
       /\ views[last.out].options = views[last.recv].options
       /\ LET again == select(views[last.out], last.args[1]) IN
          /\ again.ok
          /\ keys(again.v.columns) = keys(views[last.out].columns)
          /\ text(again.v) = text(views[last.out])

\* a select has returned the columns a, b of its receiver as b, a
C12_Witness ==
    /\ last.op = "select" /\ last.ok /\ last.args[1] = <<"b", "a">>
    /\ keys(views[last.recv].columns) = <<"a", "b">>
    /\ keys(views[last.out].columns) = <<"b", "a">>

\* C13: on R with rows (1,"x"), (2,"y"), (3,"x"), executing the statement of
\* base(R).group(R["b"], collect = "COUNT") returns ("x", 2), ("y", 1): the
\* group key itself and a count.
C13_GroupKeyProjected ==
    (last.op = "group" /\ last.recv = 1 /\ last.args = <<Rb, None, StrLit("COUNT")>>)
    => /\ last.ok
       /\ LET rs == Execute(formulate(views[last.out], NoOptions).v, rows) IN
          /\ rs.ok
          /\ rs.v = << <<StrLit("x"), IntLit(2)>>, <<StrLit("y"), IntLit(1)>> >>

\* C14: the Expression a comparison method returns carries the Boolean
\* type tag, and its fragment is not a text concatenation.
C14_ComparisonIsBoolean ==
    (last.op = "operate" /\ last.m \in Comparison /\ last.ok)
    => /\ last.out.type = "bool"
       /\ last.out.colexpr[2] # CONCAT

\* C15: apply(e, f) renders f(e) on e's view and keeps e's type tag, except
\* that apply(e, "COUNT") is Integer-typed whatever e's type tag is.
C15_ApplyType ==
    last.op = "apply"
    => /\ Str(last.out.colexpr) = last.function \o "(" \o Str(last.self.colexpr) \o ")"
       /\ tableEq(last.out.table, last.self.table)
       /\ last.out.type = IF last.function = "COUNT" THEN "int" ELSE last.self.type

orderBy(v) == sortSeg(formulate(v, NoOptions).v)

\* the text of a sort key: a name stands for the receiver's column of it
keyText(v, key) ==
    IF key.k = "str" THEN Str(get(v.columns, key.v).colexpr) ELSE Str(key.colexpr)

\* C17: the view a sort call returns renders ORDER BY with that call's key
\* and direction (DESC iff descending, else ASC) in place of any earlier
\* sort, and the view a later select, where or group returns renders the
\* ORDER BY segment of its receiver unchanged.
C17_LastSortWins ==
    [][ (last'.op \in {"select", "where", "sort", "group"} /\ last'.ok)
        => IF last'.op = "sort"
           THEN orderBy(views'[last'.out])
                  = "ORDER BY " \o keyText(views[last'.recv], last'.args[1]) \o " "
                    \o (IF last'.args[2] THEN "DESC" ELSE "ASC")
           ELSE orderBy(views'[last'.out]) = orderBy(views[last'.recv]) ]_vars

\* a second sort has replaced the key and direction of the first
C17_Witness ==
    /\ last.op = "sort" /\ last.ok
    /\ orderBy(views[last.recv]) # ""
    /\ orderBy(views[last.out]) # orderBy(views[last.recv])

\* C18: every view's options hold a having predicate only together with a
\* group key, a sort direction is ASC or DESC, and the view's statement
\* has no HAVING without GROUP BY.
C18_HavingNeedsGroup ==
    \A j \in 1..Len(views) :
        /\ views[j].options.having # <<>> => views[j].options.group # <<>>
        /\ views[j].options.sort # <<>> => views[j].options.sort[1][2] \in {"ASC", "DESC"}
        /\ formulate(views[j], NoOptions).v.having # <<>>
             => formulate(views[j], NoOptions).v.group # <<>>

\* a view holds a having predicate and a sort
C18_Witness ==
    \E j \in 1..Len(views) :
        /\ views[j].options.having # <<>>
        /\ views[j].options.sort # <<>>
        /\ formulate(views[j], NoOptions).v.having # <<>>

\* C19: group(k2), given no having, on a view whose options hold a having
\* predicate h returns a view whose options still hold h and whose
\* statement renders GROUP BY k2 HAVING h.
C19_HavingKept ==
    (last.op = "group" /\ last.ok /\ last.args[2] = None
       /\ views[last.recv].options.having # <<>>)
    => /\ views[last.out].options.having = views[last.recv].options.having
       /\ groupSeg(formulate(views[last.out], NoOptions).v)
            = "GROUP BY " \o keyText(views[last.recv], last.args[1]) \o " HAVING "
              \o Str(views[last.recv].options.having[1].colexpr)

\* a view grouped by b with a having has been grouped again, by a
C19_Witness ==
    /\ last.op = "group" /\ last.ok /\ last.args = <<Ra, None, None>>
    /\ views[last.recv].options.having = <<hR>>
    /\ views[last.recv].options.group = <<Rb>>
    /\ views[last.out].options.group = <<Ra>>

C21_ColumnsNotShared ==
    [][ last'.op \in {"setitem", "delitem"}
        => \A j \in 1..Len(views) :
             j # last'.recv
             => /\ views'[j].columns = views[j].columns
                /\ text(views'[j]) = text(views[j]) ]_vars

\* a column was deleted from one view of a derivation and the other view,
\* which was derived without narrowing, still has it
C21_Witness ==
    /\ last.op = "delitem" /\ last.ok
    /\ ~has(views[last.recv].columns, last.args[1])
    /\ has(views[last.other].columns, last.args[1])
    /\ text(views[last.recv]) # text(views[last.other])

====
